---- MODULE Spec2Model ----
(***************************************************************************)
(* The NES system bus (nes-emulator/src/system.rs: System) and the frame   *)
(* loop of the orchestrator (src/nes.rs: Nes::tick_frame) as state         *)
(* machines.  Ppu, Apu, Cartridge, Port, Cpu and Framebuffer are not part  *)
(* of the sources at hand; they are modelled from their documented         *)
(* contracts and kept as small as the bus code allows.                     *)
(***************************************************************************)
EXTENDS Integers, Sequences, FiniteSets, TLC

(***************************************************************************)
(* Bounds of the exploration                                               *)
(***************************************************************************)
\* CPU cycles (calls of step_for_cpu_cycle) explored after construction
MaxCycles == 2
\* Nes::tick_frame is entered while the CPU clock is below this
MaxCpuClock == 6
\* the most cycles one Cpu::step returns
MaxInstrCycles == 2
\* PPU dots per video frame
FrameDots == 4

(***************************************************************************)
(* Program constants                                                       *)
(***************************************************************************)
WRAM_SIZE == 2048

\* u16::MAX as usize, the length System::new gives the io_stats table
IoStatsLen == 65535

READ == 1
WRITE == 2
EXECUTE == 4
DUMMY == 8

\* the bus addresses the CPU is made to access: WRAM cell 0 and its mirrors
\* 0x0800 and 0x1800, PPU register 0x2000, the APU/I-O registers 0x4014
\* (OAMDMA), 0x4015, 0x4016 and 0x4017, and the cartridge at 0xFFFF
Addrs == {0, 2048, 6144, 8192, 16404, 16405, 16406, 16407, 65535}

\* the bytes the CPU writes and the cartridge may hold
Data == {0, 255}

\* undefined-bit masks an APU register or the cartridge may report
Masks == {0, 32, 255}

\* Option<T>: None is the empty sequence, Some(x) is <<x>>
None == <<>>
Some(x) == <<x>>

\* addresses the DMC channel may ask a sample byte from
DmcAddrs == {49152}

\* "no byte": the result of an operation that returns nothing
NoByte == 0 - 1

VARIABLES
    wram,              \* System.wram, restricted to the cells Addrs can reach
    open_bus_value,    \* System.open_bus_value
    dmc_dma_request,   \* System.dmc_dma_request : Option<DmcDmaRequest>
    ppu_clock,         \* System.ppu.clock
    apu_clock,         \* System.apu.clock
    dev,               \* the byte each bus device currently drives
    undef,             \* the undefined bits the APU and the cartridge report
    watch_points,      \* System.debug.watch_points : Vec<WatchPoint>
    watch_hit,         \* System.debug.watch_hit
    debug_assertions,  \* the build: TRUE iff debug_assert! is compiled in
    panicked,          \* a debug assertion has failed: the program has aborted
    bus_accesses,      \* ghost: completed side-effecting bus accesses
    direct_steps,      \* ghost: completed direct step_for_cpu_cycle calls
    drifting,          \* ghost: a Ppu::step call hit a breakpoint and no
                       \* catch_up_ppu_drift has returned true since
    last,              \* ghost: the operation that ran last
    io_stats,          \* System.debug.io_stats : Vec<IoStatsRecord>, None in
                       \* a build without the io-stats feature
    snapshot           \* the System the caller cloned last, None before

sysvars == <<wram, open_bus_value, dmc_dma_request, ppu_clock, apu_clock, dev,
             undef, watch_points, watch_hit, debug_assertions, panicked,
             bus_accesses, direct_steps, drifting, last, io_stats, snapshot>>

VARIABLES
    cpu_clock,         \* Nes.cpu_clock
    nes_ppu_clock,     \* Nes.ppu_clock
    oam_dma_cpu_suspend_cycles,  \* Nes.system.oam_dma_cpu_suspend_cycles
    tick_pc,           \* where Nes::tick_frame stands: "idle" (not running),
                       \* "loop" (top of 'frame_loop), "catchup" (the for
                       \* loop), "cpu" (the CPU's turn)
    dots_left,         \* iterations the for loop has yet to run
    fb_rented,         \* the framebuffer is checked out
    handles,           \* who holds a live lease handle
    cut_short,         \* ghost: the frame last finished in mid catch-up
    nes_last           \* ghost: what the frame loop or the consumer did last

nesvars == <<cpu_clock, nes_ppu_clock, oam_dma_cpu_suspend_cycles, tick_pc,
             dots_left, fb_rented, handles, cut_short, nes_last>>

VARIABLES
    nmi_raised,        \* ghost: PPU dots that reported RaiseNmi
    nmi_delivered,     \* ghost: cpu.interrupt(NMI) calls made
    cpu_steps,         \* ghost: cpu.step calls made
    step_cycles,       \* ghost: the cycles the last cpu.step returned
    fb_pixels          \* ghost: dots drawn through the leased pixel pointer

nesghost == <<nmi_raised, nmi_delivered, cpu_steps, step_cycles, fb_pixels>>

\* all that belongs to the frame loop
framevars == <<nesvars, nesghost>>

VARIABLES
    tape               \* ghost: the bus accesses made on a System since it
                       \* was cloned, each with what it returned and the
                       \* architectural state it left

vars == <<sysvars, framevars, tape>>

(***************************************************************************)
(* u8 arithmetic                                                           *)
(***************************************************************************)
RECURSIVE BitAndN(_, _, _)
BitAndN(a, b, n) ==
    IF n = 0 THEN 0
    ELSE (a % 2) * (b % 2) + 2 * BitAndN(a \div 2, b \div 2, n - 1)

BitAnd(a, b) == BitAndN(a, b, 8)
BitNot(a) == 255 - a
BitOr(a, b) == a + b - BitAnd(a, b)

(***************************************************************************)
(* Open bus                                                                *)
(***************************************************************************)
\* mutant: the undefined bits read as 0
apply_open_bus_bits_zero(value, undefined_bits) ==
    BitAnd(value, BitNot(undefined_bits))

\* System::apply_open_bus_bits: the value with its undefined bits taken from
\* the latch
apply_open_bus_bits(value, undefined_bits) ==
    BitOr(BitAnd(value, BitNot(undefined_bits)),
          BitAnd(open_bus_value, undefined_bits))

\* System::apply_open_bus_bits_mut returns the same byte and stores it in the
\* latch; the store is the open_bus_value' conjunct of the read actions
apply_open_bus_bits_mut(value, undefined_bits) ==
    BitOr(BitAnd(value, BitNot(undefined_bits)),
          BitAnd(open_bus_value, undefined_bits))

(***************************************************************************)
(* Bus devices.  system_bus_read/peek/write of Ppu and Cartridge,          *)
(* read/peek/write of Apu and read/peek/write_register of Port are outside *)
(* the sources: each device is one byte it drives when read.               *)
(***************************************************************************)
\* Port::read returns the next button bit and shifts the register, filling
\* with ones; Port::peek returns the same bit and shifts nothing
PortBit(p) == p % 2
PortShift(p) == (p \div 2) + 128
\* Port::write_register: a strobe (bit 0 set) reloads the shift register
\* from the buttons held down
Buttons(port) == IF port = "port1" THEN 165 ELSE 90
PortWriteRegister(port, data) ==
    IF data % 2 = 1 THEN Buttons(port) ELSE dev[port]

\* WRAM cell i; the cells no address of Addrs reaches are never written and
\* hold the 0 they are constructed with
WramAt(i) == IF i \in DOMAIN wram THEN wram[i] ELSE 0

\* mutant: a read of OAMDMA returns 0 with no undefined bits
ReadSampleOamZero(addr) ==
    IF addr <= 8191 THEN <<WramAt(addr % WRAM_SIZE), 0>>
    ELSE IF addr <= 16383 THEN <<dev.ppu, 0>>
    ELSE IF addr <= 16415 THEN
        LET index == addr - 16384 IN
        IF index = 20 THEN <<0, 0>>
        ELSE IF index = 22 THEN <<PortBit(dev.port1), 224>>
        ELSE IF index = 23 THEN <<PortBit(dev.port2), 224>>
        ELSE <<dev.apu, undef.apu>>
    ELSE <<dev.cart, undef.cart>>

\* mutant: System::read without the WRAM mirror (index = addr)
ReadSampleNoMirror(addr) ==
    IF addr <= 8191 THEN <<WramAt(addr), 0>>
    ELSE IF addr <= 16383 THEN <<dev.ppu, 0>>
    ELSE IF addr <= 16415 THEN
        LET index == addr - 16384 IN
        IF index = 20 THEN <<0, 255>>
        ELSE IF index = 22 THEN <<PortBit(dev.port1), 224>>
        ELSE IF index = 23 THEN <<PortBit(dev.port2), 224>>
        ELSE <<dev.apu, undef.apu>>
    ELSE <<dev.cart, undef.cart>>

\* the match of System::read: the (value, undefined_bits) pair the addressed
\* device returns
ReadSample(addr) ==
    IF addr <= 8191 THEN <<WramAt(addr % WRAM_SIZE), 0>>
    ELSE IF addr <= 16383 THEN <<dev.ppu, 0>>
    ELSE IF addr <= 16415 THEN
        LET index == addr - 16384 IN
        IF index = 20 THEN <<0, 255>>
        ELSE IF index = 22 THEN <<PortBit(dev.port1), 224>>
        ELSE IF index = 23 THEN <<PortBit(dev.port2), 224>>
        ELSE <<dev.apu, undef.apu>>
    ELSE <<dev.cart, undef.cart>>

\* the device calls System::read makes, in order
ReadCalls(addr) ==
    IF addr <= 8191 THEN <<"wram">>
    ELSE IF addr <= 16383 THEN <<"ppu.system_bus_read">>
    ELSE IF addr <= 16415 THEN
        LET index == addr - 16384 IN
        IF index = 20 THEN <<>>
        ELSE IF index = 22 THEN <<"port1.read">>
        ELSE IF index = 23 THEN <<"port2.read">>
        ELSE <<"apu.read">>
    ELSE <<"cartridge.system_bus_read">>

\* the devices after System::read has sampled the addressed one
DevAfterRead(addr) ==
    IF addr = 16406 THEN [dev EXCEPT !.port1 = PortShift(dev.port1)]
    ELSE IF addr = 16407 THEN [dev EXCEPT !.port2 = PortShift(dev.port2)]
    ELSE dev

\* the match of System::peek
PeekSample(addr) ==
    IF addr <= 8191 THEN <<WramAt(addr % WRAM_SIZE), 0>>
    ELSE IF addr <= 16383 THEN <<dev.ppu, 0>>
    ELSE IF addr <= 16415 THEN
        LET index == addr - 16384 IN
        IF index = 20 THEN <<0, 255>>
        ELSE IF index = 22 THEN <<PortBit(dev.port1), 224>>
        ELSE IF index = 23 THEN <<PortBit(dev.port2), 224>>
        ELSE <<dev.apu, undef.apu>>
    ELSE <<dev.cart, undef.cart>>

\* the match of System::write: WRAM after the write
WramAfterWrite(addr, data) ==
    IF addr <= 8191 /\ (addr % WRAM_SIZE) \in DOMAIN wram
    THEN [wram EXCEPT ![addr % WRAM_SIZE] = data]
    ELSE wram

\* mutant: a write to 0x4017 treated like a write to 0x4016
DevAfterWriteBothPorts(addr, data) ==
    IF addr <= 8191 THEN dev
    ELSE IF addr <= 16383 THEN [dev EXCEPT !.ppu = data]
    ELSE IF addr <= 16415 THEN
        LET index == addr - 16384 IN
        IF index = 20 THEN dev
        ELSE IF index \in {22, 23} THEN
            [dev EXCEPT !.port1 = PortWriteRegister("port1", data),
                        !.port2 = PortWriteRegister("port2", data),
                        !.apu = data]
        ELSE [dev EXCEPT !.apu = data]
    ELSE [dev EXCEPT !.cart = data]

\* the match of System::write: the devices after the write
DevAfterWrite(addr, data) ==
    IF addr <= 8191 THEN dev
    ELSE IF addr <= 16383 THEN [dev EXCEPT !.ppu = data]
    ELSE IF addr <= 16415 THEN
        LET index == addr - 16384 IN
        IF index = 20 THEN dev
        ELSE IF index = 22 THEN
            [dev EXCEPT !.port1 = PortWriteRegister("port1", data),
                        !.port2 = PortWriteRegister("port2", data),
                        !.apu = data]
        ELSE [dev EXCEPT !.apu = data]
    ELSE [dev EXCEPT !.cart = data]

\* the device calls System::write makes, in order
WriteCalls(addr) ==
    IF addr <= 8191 THEN <<"wram">>
    ELSE IF addr <= 16383 THEN <<"ppu.system_bus_write">>
    ELSE IF addr <= 16415 THEN
        LET index == addr - 16384 IN
        IF index = 20 THEN <<>>
        ELSE IF index = 22 THEN
            <<"port1.write_register", "port2.write_register", "apu.write">>
        ELSE <<"apu.write">>
    ELSE <<"cartridge.system_bus_write">>

(***************************************************************************)
(* Address decoding: the outer `match addr` of read, peek and write.  An   *)
(* arm is the inclusive range of its pattern and the device its body       *)
(* addresses; the `_` arm is the whole of u16.                             *)
(***************************************************************************)
\* mutant: the APU and I/O arm ends at 0x4017, the last register in use
ReadArmsShortIo ==
    << [lo |-> 0, hi |-> 8191, dev |-> "wram"],
       [lo |-> 8192, hi |-> 16383, dev |-> "ppu"],
       [lo |-> 16384, hi |-> 16407, dev |-> "apu_io"],
       [lo |-> 0, hi |-> 65535, dev |-> "cartridge"] >>

\* System::read: 0x0000..=0x1fff, 0x2000..=0x3fff, 0x4000..=0x401f, _
ReadArms ==
    << [lo |-> 0, hi |-> 8191, dev |-> "wram"],
       [lo |-> 8192, hi |-> 16383, dev |-> "ppu"],
       [lo |-> 16384, hi |-> 16415, dev |-> "apu_io"],
       [lo |-> 0, hi |-> 65535, dev |-> "cartridge"] >>

\* System::peek
PeekArms ==
    << [lo |-> 0, hi |-> 8191, dev |-> "wram"],
       [lo |-> 8192, hi |-> 16383, dev |-> "ppu"],
       [lo |-> 16384, hi |-> 16415, dev |-> "apu_io"],
       [lo |-> 0, hi |-> 65535, dev |-> "cartridge"] >>

\* System::write
WriteArms ==
    << [lo |-> 0, hi |-> 8191, dev |-> "wram"],
       [lo |-> 8192, hi |-> 16383, dev |-> "ppu"],
       [lo |-> 16384, hi |-> 16415, dev |-> "apu_io"],
       [lo |-> 0, hi |-> 65535, dev |-> "cartridge"] >>

\* the arms whose pattern holds addr
Matching(arms, addr) ==
    {i \in 1..Len(arms) : arms[i].lo <= addr /\ addr <= arms[i].hi}

\* `match addr`: the body of the first arm whose pattern holds addr runs
MatchArm(arms, addr) ==
    LET hits == Matching(arms, addr)
    IN  arms[CHOOSE i \in hits : \A j \in hits : i <= j].dev

(***************************************************************************)
(* Watchpoints                                                             *)
(***************************************************************************)
\* mutant: WatchOps::intersects in place of contains
ContainsAny(mask, ops) == BitAnd(mask, ops) # 0

\* WatchOps::contains
Contains(mask, ops) == BitAnd(mask, ops) = ops

\* mutant: the check assigns the flag instead of only setting it
check_watch_points_assign(addr, ops) ==
    \E i \in 1..Len(watch_points) :
        /\ watch_points[i].address = addr
        /\ Contains(watch_points[i].ops, ops)

\* System::check_watch_points: the watch-hit flag after the check
check_watch_points(addr, ops) ==
    watch_hit \/ \E i \in 1..Len(watch_points) :
                    /\ watch_points[i].address = addr
                    /\ Contains(watch_points[i].ops, ops)

(***************************************************************************)
(* Stepping                                                                *)
(***************************************************************************)
\* `for _ in 0..n { if !self.step_ppu() { break; } }` from call i on: the
\* dots the PPU advances, the Ppu::step calls made, and whether one of them
\* hit a breakpoint.  Ppu::step advances one dot and returns true, or hits a
\* breakpoint, advances nothing and returns false; bp is the set of calls
\* (counted from 1) at which it hits a breakpoint.
RECURSIVE PpuLoop(_, _, _)
PpuLoop(i, n, bp) ==
    IF i > n THEN [dots |-> 0, calls |-> 0, hit |-> FALSE]
    ELSE IF i \in bp THEN [dots |-> 0, calls |-> 1, hit |-> TRUE]
    ELSE LET rest == PpuLoop(i + 1, n, bp)
         IN  [dots |-> rest.dots + 1, calls |-> rest.calls + 1,
              hit |-> rest.hit]

\* mutant: the loop of one CPU cycle as `for _ in 0..2`
CycleLoopShort(bp) == PpuLoop(1, 2, bp)

\* the PPU loop of one CPU cycle: `for _ in 0..3`
CycleLoop(bp) == PpuLoop(1, 3, bp)

\* mutant: step_for_cpu_cycle without its debug_assert!
AssertNever == FALSE

\* debug_assert!(self.dmc_dma_request.is_none()) fails
AssertFails == debug_assertions /\ dmc_dma_request # None

\* the ghost record of an operation: the fields given, the others blank.
\*   ok: the operation returned (no assertion failed in it)
\*   driven: the byte System::read computed, ret: the byte handed back
\*   dots, calls: PPU dots advanced and Ppu::step calls made
\*   caught_up: what catch_up_ppu_drift returned
\*   peeked: a peek of the same address ran just before this read
\*   replaced: add_watch found and removed an entry for the address
Blank == [op |-> "new", addr |-> NoByte, data |-> NoByte, ret |-> NoByte,
          driven |-> NoByte, ok |-> TRUE, dots |-> 0, calls |-> 0,
          devs |-> <<>>, expected |-> NoByte, caught_up |-> FALSE,
          peeked |-> FALSE, replaced |-> FALSE]
Op(r) == [f \in DOMAIN Blank |-> IF f \in DOMAIN r THEN r[f] ELSE Blank[f]]

\* mutant: the APU stepped after the PPU loop, which returns at a breakpoint
step_for_cpu_cycle_return(bp, dma) ==
    IF AssertFails
    THEN /\ panicked' = TRUE
         /\ UNCHANGED <<dmc_dma_request, apu_clock, ppu_clock, drifting>>
    ELSE /\ panicked' = FALSE
         /\ dmc_dma_request' = IF CycleLoop(bp).dots = 3 THEN dma
                                ELSE dmc_dma_request
         /\ apu_clock' = apu_clock + (IF CycleLoop(bp).dots = 3 THEN 1 ELSE 0)
         /\ ppu_clock' = ppu_clock + CycleLoop(bp).dots
         /\ drifting' = (drifting \/ CycleLoop(bp).hit)

\* System::step_for_cpu_cycle: bp are the Ppu::step calls that hit a
\* breakpoint, dma is what Apu::step returns.  The conjunct every bus access
\* shares; the failed assertion aborts the program.
step_for_cpu_cycle(bp, dma) ==
    IF AssertFails
    THEN /\ panicked' = TRUE
         /\ UNCHANGED <<dmc_dma_request, apu_clock, ppu_clock, drifting>>
    ELSE /\ panicked' = FALSE
         /\ dmc_dma_request' = dma
         /\ apu_clock' = apu_clock + 1
         /\ ppu_clock' = ppu_clock + CycleLoop(bp).dots
         /\ drifting' = (drifting \/ CycleLoop(bp).hit)

(***************************************************************************)
(* Construction                                                            *)
(***************************************************************************)
\* the cells of the io_stats table the accesses made here can reach
IoStatsCells(len) == {a \in Addrs \cup {65534} : a < len}

\* vec![IoStatsRecord::default(); u16::MAX as usize]
NewIoStats ==
    [len |-> IoStatsLen,
     cells |-> [a \in IoStatsCells(IoStatsLen) |->
                   [reads |-> 0, writes |-> 0, execute |-> 0]]]

\* the WRAM cells the addresses of Addrs reach
WramCells == {a % WRAM_SIZE : a \in {b \in Addrs : b <= 8191}}

\* System::new; the cartridge (the byte it holds, the undefined bits it and
\* the APU report) and the build are the caller's choice
InitWith(carts, masks, builds, stats) ==
    /\ wram = [i \in WramCells |-> 0]
    /\ open_bus_value = 0
    /\ dmc_dma_request = None
    /\ ppu_clock = 0
    /\ apu_clock = 0
    /\ \E c \in carts :
          dev = [ppu |-> 0, apu |-> 0, cart |-> c, port1 |-> 0, port2 |-> 0]
    /\ \E m \in masks : undef = [apu |-> m, cart |-> m]
    /\ watch_points = <<>>
    /\ watch_hit = FALSE
    /\ debug_assertions \in builds
    /\ panicked = FALSE
    /\ bus_accesses = 0
    /\ direct_steps = 0
    /\ drifting = FALSE
    /\ last = Blank
    /\ \E on \in stats : io_stats = IF on THEN Some(NewIoStats) ELSE None
    /\ snapshot = None
    /\ tape = <<>>

(***************************************************************************)
(* Bus operations                                                          *)
(***************************************************************************)
ReadOps == {"cpu_read", "dummy_cpu_read", "cpu_fetch"}
WriteOps == {"cpu_write", "dummy_cpu_write"}
BusOps == ReadOps \cup WriteOps

\* the counter of its address's IoStatsRecord an operation increments
StatField(op) ==
    IF op \in WriteOps THEN "writes"
    ELSE IF op = "cpu_fetch" THEN "execute"
    ELSE "reads"

\* `self.debug.io_stats[addr as usize]` is out of bounds: the program aborts
IoStatsFails(addr) == io_stats # None /\ addr >= io_stats[1].len

\* `self.debug.io_stats[addr as usize].<field> += 1` (io-stats builds only)
IoStatsAfter(op, addr) ==
    IF io_stats = None \/ addr \notin DOMAIN io_stats[1].cells THEN io_stats
    ELSE Some([io_stats[1] EXCEPT !.cells[addr][StatField(op)] = @ + 1])

\* mutant: step_for_cpu_cycle called before the device is sampled
read_step_first(op, ops, addr, bp, dma) ==
    LET sample == ReadSample(addr)
        value == apply_open_bus_bits_mut(sample[1], sample[2])
        rec == [op |-> op, addr |-> addr, devs |-> ReadCalls(addr),
                peeked |-> last.op = "peek" /\ last.addr = addr]
    IN  /\ ~panicked
        /\ apu_clock < MaxCycles
        /\ watch_hit' = check_watch_points(addr, ops)
        /\ IF IoStatsFails(addr)
           THEN /\ panicked' = TRUE
                /\ last' = Op([op |-> op, addr |-> addr, ok |-> FALSE])
                /\ UNCHANGED <<io_stats, dev, dmc_dma_request, apu_clock,
                               ppu_clock, drifting, open_bus_value,
                               bus_accesses>>
           ELSE /\ io_stats' = IoStatsAfter(op, addr)
                /\ dev' = IF AssertFails THEN dev ELSE DevAfterRead(addr)
                /\ step_for_cpu_cycle(bp, dma)
                /\ IF AssertFails
                   THEN /\ last' = Op(rec @@ [ok |-> FALSE])
                        /\ UNCHANGED <<open_bus_value, bus_accesses>>
                   ELSE /\ open_bus_value' = value
                        /\ bus_accesses' = bus_accesses + 1
                        /\ last' = Op(rec @@ [driven |-> value,
                                              ret |-> IF op = "dummy_cpu_read"
                                                      THEN NoByte ELSE value,
                                              dots |-> CycleLoop(bp).dots,
                                              calls |-> CycleLoop(bp).calls])
        /\ UNCHANGED <<wram, undef, watch_points, debug_assertions,
                       direct_steps, snapshot>>
        /\ UNCHANGED <<framevars, tape>>

\* System::read with the wrapper that calls it (cpu_read, dummy_cpu_read or
\* cpu_fetch): the watchpoint check with ops, the I/O counter, the read
read(op, ops, addr, bp, dma) ==
    LET sample == ReadSample(addr)
        value == apply_open_bus_bits_mut(sample[1], sample[2])
        rec == [op |-> op, addr |-> addr, devs |-> ReadCalls(addr),
                peeked |-> last.op = "peek" /\ last.addr = addr]
    IN  /\ ~panicked
        /\ apu_clock < MaxCycles
        /\ watch_hit' = check_watch_points(addr, ops)
        /\ IF IoStatsFails(addr)
           THEN /\ panicked' = TRUE
                /\ last' = Op([op |-> op, addr |-> addr, ok |-> FALSE])
                /\ UNCHANGED <<io_stats, dev, dmc_dma_request, apu_clock,
                               ppu_clock, drifting, open_bus_value,
                               bus_accesses>>
           ELSE /\ io_stats' = IoStatsAfter(op, addr)
                /\ dev' = DevAfterRead(addr)
                /\ step_for_cpu_cycle(bp, dma)
                /\ IF AssertFails
                   THEN /\ last' = Op(rec @@ [ok |-> FALSE])
                        /\ UNCHANGED <<open_bus_value, bus_accesses>>
                   ELSE /\ open_bus_value' = value
                        /\ bus_accesses' = bus_accesses + 1
                        /\ last' = Op(rec @@ [driven |-> value,
                                              ret |-> IF op = "dummy_cpu_read"
                                                      THEN NoByte ELSE value,
                                              dots |-> CycleLoop(bp).dots,
                                              calls |-> CycleLoop(bp).calls])
        /\ UNCHANGED <<wram, undef, watch_points, debug_assertions,
                       direct_steps, snapshot>>
        /\ UNCHANGED <<framevars, tape>>

cpu_read(addr, bp, dma) == read("cpu_read", READ, addr, bp, dma)

dummy_cpu_read(addr, bp, dma) ==
    read("dummy_cpu_read", BitOr(DUMMY, READ), addr, bp, dma)

cpu_fetch(addr, bp, dma) == read("cpu_fetch", EXECUTE, addr, bp, dma)

\* System::write with the wrapper that calls it (cpu_write or
\* dummy_cpu_write): the watchpoint check with ops, the I/O counter, the write
write(op, ops, addr, data, bp, dma) ==
    LET rec == [op |-> op, addr |-> addr, data |-> data,
                devs |-> WriteCalls(addr)]
    IN  /\ ~panicked
        /\ apu_clock < MaxCycles
        /\ watch_hit' = check_watch_points(addr, ops)
        /\ IF IoStatsFails(addr)
           THEN /\ panicked' = TRUE
                /\ last' = Op([op |-> op, addr |-> addr, data |-> data,
                               ok |-> FALSE])
                /\ UNCHANGED <<io_stats, wram, dev, dmc_dma_request, apu_clock,
                               ppu_clock, drifting, bus_accesses>>
           ELSE /\ io_stats' = IoStatsAfter(op, addr)
                /\ wram' = WramAfterWrite(addr, data)
                /\ dev' = DevAfterWrite(addr, data)
                /\ step_for_cpu_cycle(bp, dma)
                /\ IF AssertFails
                   THEN /\ last' = Op(rec @@ [ok |-> FALSE])
                        /\ UNCHANGED bus_accesses
                   ELSE /\ bus_accesses' = bus_accesses + 1
                        /\ last' = Op(rec @@ [dots |-> CycleLoop(bp).dots,
                                              calls |-> CycleLoop(bp).calls])
        /\ UNCHANGED <<open_bus_value, undef, watch_points, debug_assertions,
                       direct_steps, snapshot>>
        /\ UNCHANGED <<framevars, tape>>

cpu_write(addr, data, bp, dma) == write("cpu_write", WRITE, addr, data, bp, dma)

dummy_cpu_write(addr, data, bp, dma) ==
    write("dummy_cpu_write", BitOr(DUMMY, WRITE), addr, data, bp, dma)

\* mutant: peek through apply_open_bus_bits_mut
peek_mut(addr) ==
    LET sample == PeekSample(addr)
        value == apply_open_bus_bits_mut(sample[1], sample[2])
    IN  /\ ~panicked
        /\ open_bus_value' = value
        /\ last' = Op([op |-> "peek", addr |-> addr, ret |-> value])
        /\ UNCHANGED <<wram, dmc_dma_request, ppu_clock,
                       apu_clock, dev, undef, watch_points, watch_hit,
                       debug_assertions, panicked, bus_accesses, direct_steps,
                       drifting>>
        /\ UNCHANGED <<io_stats, snapshot>>
        /\ UNCHANGED <<framevars, tape>>

\* System::peek
peek(addr) ==
    LET sample == PeekSample(addr)
        value == apply_open_bus_bits(sample[1], sample[2])
    IN  /\ ~panicked
        /\ last' = Op([op |-> "peek", addr |-> addr, ret |-> value])
        /\ UNCHANGED <<wram, open_bus_value, dmc_dma_request, ppu_clock,
                       apu_clock, dev, undef, watch_points, watch_hit,
                       debug_assertions, panicked, bus_accesses, direct_steps,
                       drifting>>
        /\ UNCHANGED <<io_stats, snapshot>>
        /\ UNCHANGED <<framevars, tape>>

\* System::step_for_cpu_cycle called by the CPU itself (a cycle without bus
\* access: OAM DMA suspension, DMC DMA halt)
StepForCpuCycle(bp, dma) ==
    /\ ~panicked
    /\ apu_clock < MaxCycles
    /\ step_for_cpu_cycle(bp, dma)
    /\ IF AssertFails
       THEN /\ last' = Op([op |-> "step_for_cpu_cycle", ok |-> FALSE])
            /\ UNCHANGED direct_steps
       ELSE /\ direct_steps' = direct_steps + 1
            /\ last' = Op([op |-> "step_for_cpu_cycle",
                           dots |-> CycleLoop(bp).dots,
                           calls |-> CycleLoop(bp).calls])
    /\ UNCHANGED <<wram, open_bus_value, dev, undef, watch_points, watch_hit,
                   debug_assertions, bus_accesses>>
    /\ UNCHANGED <<io_stats, snapshot>>
    /\ UNCHANGED <<framevars, tape>>

\* the CPU takes the pending DMC DMA request (Option::take), as the comment
\* on System.dmc_dma_request asks of it
TakeDmcDmaRequest ==
    /\ ~panicked
    /\ dmc_dma_request # None
    /\ dmc_dma_request' = None
    /\ last' = Op([op |-> "take_dmc_dma_request"])
    /\ UNCHANGED <<wram, open_bus_value, ppu_clock, apu_clock, dev, undef,
                   watch_points, watch_hit, debug_assertions, panicked,
                   bus_accesses, direct_steps, drifting>>
    /\ UNCHANGED <<io_stats, snapshot>>
    /\ UNCHANGED <<framevars, tape>>

\* System::catch_up_ppu_drift(expected_ppu_clock).  The subtraction is u64:
\* below the PPU clock it overflows, which aborts a debug build and wraps in
\* a release build, where the loop then runs until a breakpoint stops it; a
\* call that aborts or spins for 2^64 dots never returns (panicked).  The
\* wrapped distance 2^64 - (ppu.clock - expected) is beyond the integers of
\* the checker: 1000000 stands for it, more dots than any run here steps.
\* The call returns true iff its loop ran to the end:
\* mutant: `break` in place of `return false`
CatchUpResultBreak(dots, ppu_delta) == TRUE

CatchUpResult(dots, ppu_delta) == dots = ppu_delta

catch_up_ppu_drift(expected_ppu_clock, bp) ==
    LET underflow == expected_ppu_clock < ppu_clock
        ppu_delta == IF underflow
                     THEN 1000000 + expected_ppu_clock - ppu_clock
                     ELSE expected_ppu_clock - ppu_clock
        dots == PpuLoop(1, ppu_delta, bp).dots
        calls == PpuLoop(1, ppu_delta, bp).calls
        rec == [op |-> "catch_up_ppu_drift", expected |-> expected_ppu_clock]
    IN  /\ ~panicked
        /\ IF underflow /\ (debug_assertions \/ bp = {})
           THEN /\ panicked' = TRUE
                /\ last' = Op(rec @@ [ok |-> FALSE])
                /\ UNCHANGED <<ppu_clock, drifting>>
           ELSE /\ panicked' = FALSE
                /\ ppu_clock' = ppu_clock + dots
                /\ drifting' = ~CatchUpResult(dots, ppu_delta)
                /\ last' = Op(rec @@ [dots |-> dots, calls |-> calls,
                                      caught_up |->
                                          CatchUpResult(dots, ppu_delta)])
        /\ UNCHANGED <<wram, open_bus_value, dmc_dma_request, apu_clock, dev,
                       undef, watch_points, watch_hit, debug_assertions,
                       bus_accesses, direct_steps>>
        /\ UNCHANGED <<io_stats, snapshot>>
        /\ UNCHANGED <<framevars, tape>>

\* the address after the one decoded last; the first is the start of any
\* 1 KiB page
NextAddrs ==
    IF last.op = "decode" THEN {last.addr + 1}
    ELSE {1024 * k : k \in 0..63}

\* the three matches applied to one address: the devices read, peek and
\* write address there
decode(addr) ==
    /\ ~panicked
    /\ last' = Op([op |-> "decode", addr |-> addr,
                   devs |-> << MatchArm(ReadArms, addr),
                               MatchArm(PeekArms, addr),
                               MatchArm(WriteArms, addr) >>])
    /\ UNCHANGED <<wram, open_bus_value, dmc_dma_request, ppu_clock,
                   apu_clock, dev, undef, watch_points, watch_hit,
                   debug_assertions, panicked, bus_accesses, direct_steps,
                   drifting, io_stats, snapshot>>
    /\ UNCHANGED <<framevars, tape>>

(***************************************************************************)
(* Debugger and power                                                      *)
(***************************************************************************)
\* Vec::swap_remove(i): the last element takes the place of the removed one
SwapRemove(s, i) ==
    [j \in 1..(Len(s) - 1) |-> IF j = i THEN s[Len(s)] ELSE s[j]]

\* iter().position(|w| w.address == addr): the first such index, 0 for None
Position(s, addr) ==
    IF \E i \in 1..Len(s) : s[i].address = addr
    THEN CHOOSE i \in 1..Len(s) :
            /\ s[i].address = addr
            /\ \A j \in 1..(i - 1) : s[j].address # addr
    ELSE 0

\* mutant: add_watch that pushes without looking for an entry to replace
add_watch_push(addr, ops) ==
    /\ ~panicked
    /\ watch_points' = Append(watch_points, [address |-> addr, ops |-> ops])
    /\ last' = Op([op |-> "add_watch", addr |-> addr, data |-> ops])
    /\ UNCHANGED <<wram, open_bus_value, dmc_dma_request, ppu_clock,
                   apu_clock, dev, undef, watch_hit, debug_assertions,
                   panicked, bus_accesses, direct_steps, drifting>>
    /\ UNCHANGED <<io_stats, snapshot>>
    /\ UNCHANGED <<framevars, tape>>

\* System::add_watch
add_watch(addr, ops) ==
    LET i == Position(watch_points, addr)
        kept == IF i # 0 THEN SwapRemove(watch_points, i) ELSE watch_points
    IN  /\ ~panicked
        /\ watch_points' = Append(kept, [address |-> addr, ops |-> ops])
        /\ last' = Op([op |-> "add_watch", addr |-> addr, data |-> ops,
                        replaced |-> i # 0])
        /\ UNCHANGED <<wram, open_bus_value, dmc_dma_request, ppu_clock,
                       apu_clock, dev, undef, watch_hit, debug_assertions,
                       panicked, bus_accesses, direct_steps, drifting>>
        /\ UNCHANGED <<io_stats, snapshot>>
        /\ UNCHANGED <<framevars, tape>>

\* mutant: NoCloneDebugState with a derived Clone
NoCloneDebugStateDerived ==
    [watch_points |-> watch_points, watch_hit |-> watch_hit,
     io_stats |-> io_stats]

\* <NoCloneDebugState as Clone>::clone: Self::default(), whatever self holds.
\* The default Vec is empty: the clone's io_stats table has no records.
NoCloneDebugState ==
    [watch_points |-> <<>>, watch_hit |-> FALSE,
     io_stats |-> IF io_stats = None THEN None
                  ELSE Some([len |-> 0, cells |-> <<>>])]

\* <System as Clone>::clone (derived): every field cloned, the debug state
\* by NoCloneDebugState::clone; the caller keeps the clone
clone ==
    /\ ~panicked
    /\ snapshot' = Some([wram |-> wram, open_bus_value |-> open_bus_value,
                         dmc_dma_request |-> dmc_dma_request,
                         ppu_clock |-> ppu_clock, apu_clock |-> apu_clock,
                         dev |-> dev, undef |-> undef,
                         debug |-> NoCloneDebugState])
    /\ last' = Op([op |-> "clone"])
    /\ UNCHANGED <<wram, open_bus_value, dmc_dma_request, ppu_clock,
                   apu_clock, dev, undef, watch_points, watch_hit,
                   debug_assertions, panicked, bus_accesses, direct_steps,
                   drifting, io_stats>>
    /\ UNCHANGED <<framevars, tape>>

\* System::power_cycle: the devices are power cycled and kept, the watch
\* list is kept, everything else is set as System::new sets it.  Ppu and Apu
\* restart their clocks; a port clears its shift register.
power_cycle ==
    /\ ~panicked
    /\ wram' = [i \in WramCells |-> 0]
    /\ open_bus_value' = 0
    /\ dmc_dma_request' = None
    /\ ppu_clock' = 0
    /\ apu_clock' = 0
    /\ dev' = [dev EXCEPT !.ppu = 0, !.apu = 0, !.port1 = 0, !.port2 = 0]
    /\ watch_hit' = FALSE
    /\ bus_accesses' = 0
    /\ direct_steps' = 0
    /\ drifting' = FALSE
    /\ last' = Op([op |-> "power_cycle"])
    /\ io_stats' = IF io_stats = None THEN None ELSE Some(NewIoStats)
    /\ UNCHANGED <<undef, watch_points, debug_assertions, panicked, snapshot>>
    /\ UNCHANGED <<framevars, tape>>

\* mutant: the two commented-out lines live, the ports reset as well
reset_ports(ppu_reg, apu_reg, restart) ==
    /\ ~panicked
    /\ dev' = [dev EXCEPT !.ppu = ppu_reg, !.apu = apu_reg,
                          !.port1 = 0, !.port2 = 0]
    /\ ppu_clock' = IF restart THEN 0 ELSE ppu_clock
    /\ apu_clock' = IF restart THEN 0 ELSE apu_clock
    /\ bus_accesses' = IF restart THEN 0 ELSE bus_accesses
    /\ direct_steps' = IF restart THEN 0 ELSE direct_steps
    /\ drifting' = IF restart THEN FALSE ELSE drifting
    /\ last' = Op([op |-> "reset",
                   devs |-> <<"ppu.reset", "apu.reset", "pad1.reset",
                              "pad2.reset", "cartridge.reset">>])
    /\ UNCHANGED <<wram, open_bus_value, dmc_dma_request, undef, watch_points,
                   watch_hit, debug_assertions, panicked, io_stats, snapshot>>
    /\ UNCHANGED <<framevars, tape>>

\* System::reset: ppu.reset(), apu.reset(), cartridge.reset().  What a
\* device does on reset is its own: the PPU and the APU come out driving
\* ppu_reg and apu_reg and may restart their clocks (restart); the byte the
\* cartridge holds is ROM and stays.
reset(ppu_reg, apu_reg, restart) ==
    /\ ~panicked
    /\ dev' = [dev EXCEPT !.ppu = ppu_reg, !.apu = apu_reg]
    /\ ppu_clock' = IF restart THEN 0 ELSE ppu_clock
    /\ apu_clock' = IF restart THEN 0 ELSE apu_clock
    /\ bus_accesses' = IF restart THEN 0 ELSE bus_accesses
    /\ direct_steps' = IF restart THEN 0 ELSE direct_steps
    /\ drifting' = IF restart THEN FALSE ELSE drifting
    /\ last' = Op([op |-> "reset",
                   devs |-> <<"ppu.reset", "apu.reset", "cartridge.reset">>])
    /\ UNCHANGED <<wram, open_bus_value, dmc_dma_request, undef, watch_points,
                   watch_hit, debug_assertions, panicked, io_stats, snapshot>>
    /\ UNCHANGED <<framevars, tape>>

\* the architectural state of the System: all of it but the debug state
Arch ==
    [wram |-> wram, open_bus_value |-> open_bus_value,
     dmc_dma_request |-> dmc_dma_request, ppu_clock |-> ppu_clock,
     apu_clock |-> apu_clock, dev |-> dev, undef |-> undef]

\* the bus accesses that have run to their end or aborted
Accesses == bus_accesses + (IF panicked THEN 1 ELSE 0)

\* the observer notes the access that just ran: its kind and arguments,
\* whether it returned and what, the state it left and the byte a peek of
\* each address would now return
Record(addrs) ==
    /\ snapshot # None
    /\ last.op \in BusOps
    /\ Len(tape) < Accesses
    /\ tape' = Append(tape,
                      [op |-> last.op, addr |-> last.addr, data |-> last.data,
                       ok |-> last.ok, ret |-> last.ret, arch |-> Arch,
                       peeks |-> [a \in addrs |->
                                    apply_open_bus_bits(PeekSample(a)[1],
                                                        PeekSample(a)[2])]])
    /\ UNCHANGED <<sysvars, framevars>>

\* the caller puts the clone in the place of the System (`system = saved`,
\* the restore of a save state): every field is the clone's, the debug
\* state included; the build stays what it is
Restore ==
    /\ ~panicked
    /\ snapshot # None
    /\ wram' = snapshot[1].wram
    /\ open_bus_value' = snapshot[1].open_bus_value
    /\ dmc_dma_request' = snapshot[1].dmc_dma_request
    /\ ppu_clock' = snapshot[1].ppu_clock
    /\ apu_clock' = snapshot[1].apu_clock
    /\ dev' = snapshot[1].dev
    /\ undef' = snapshot[1].undef
    /\ watch_points' = snapshot[1].debug.watch_points
    /\ watch_hit' = snapshot[1].debug.watch_hit
    /\ io_stats' = snapshot[1].debug.io_stats
    /\ snapshot' = None
    /\ bus_accesses' = 0
    /\ direct_steps' = 0
    /\ drifting' = FALSE
    /\ last' = Op([op |-> "restore"])
    /\ UNCHANGED <<debug_assertions, panicked>>
    /\ UNCHANGED <<framevars, tape>>

(***************************************************************************)
(* The frame loop: Nes::tick_frame and a consumer of the framebuffer       *)
(***************************************************************************)
\* Nes::new, and a framebuffer nobody has checked out
NesNew ==
    /\ cpu_clock = 0
    /\ nes_ppu_clock = 0
    /\ oam_dma_cpu_suspend_cycles = 0
    /\ tick_pc = "idle"
    /\ dots_left = 0
    /\ fb_rented = FALSE
    /\ handles = {}
    /\ cut_short = FALSE
    /\ nes_last = "new"
    /\ nmi_raised = 0
    /\ nmi_delivered = 0
    /\ cpu_steps = 0
    /\ step_cycles = 0
    /\ fb_pixels = 0

\* what System::step_ppu may report for the dot at clock: the last dot of a
\* frame finishes it, the first may raise the NMI (if the program enabled
\* it), every other dot reports nothing
PpuStatusAt(clock) ==
    IF clock % FrameDots = FrameDots - 1 THEN {"FinishedFrame"}
    ELSE IF clock % FrameDots = 0 THEN {"None", "RaiseNmi"}
    ELSE {"None"}

\* the OAM DMA suspension a Cpu::step may leave behind
OamBudgets == {0, 2}

\* Framebuffer::rent_data: Some(handle) iff the buffer is not checked out
Rentable == ~fb_rented

\* mutant: tick_frame renders whether or not rent_data handed out a lease
TickFrameRentAnyway ==
    /\ tick_pc = "idle"
    /\ cpu_clock < MaxCpuClock
    /\ fb_rented' = TRUE
    /\ handles' = handles \cup {"emu"}
    /\ tick_pc' = "loop"
    /\ nes_last' = "rented"
    /\ UNCHANGED <<cpu_clock, nes_ppu_clock, oam_dma_cpu_suspend_cycles,
                   dots_left, cut_short>>
    /\ UNCHANGED nesghost
    /\ UNCHANGED <<sysvars, tape>>

\* `let rental = framebuffer.rent_data(); if let Some(..) = rental`: the
\* lease is taken and the frame loop entered
TickFrameRent ==
    /\ tick_pc = "idle"
    /\ cpu_clock < MaxCpuClock
    /\ Rentable
    /\ fb_rented' = TRUE
    /\ handles' = handles \cup {"emu"}
    /\ tick_pc' = "loop"
    /\ nes_last' = "rented"
    /\ UNCHANGED <<cpu_clock, nes_ppu_clock, oam_dma_cpu_suspend_cycles,
                   dots_left, cut_short>>
    /\ UNCHANGED nesghost
    /\ UNCHANGED <<sysvars, tape>>

\* mutant: tick_frame without a lease runs the frame loop all the same
TickFrameSkipRuns ==
    /\ tick_pc = "idle"
    /\ cpu_clock < MaxCpuClock
    /\ ~Rentable
    /\ tick_pc' = "loop"
    /\ nes_last' = "skipped"
    /\ UNCHANGED <<cpu_clock, nes_ppu_clock, oam_dma_cpu_suspend_cycles,
                   dots_left, fb_rented, handles, cut_short>>
    /\ UNCHANGED nesghost
    /\ UNCHANGED <<sysvars, tape>>

\* the else branch: rent_data returned None, tick_frame warns and returns
TickFrameSkip ==
    /\ tick_pc = "idle"
    /\ cpu_clock < MaxCpuClock
    /\ ~Rentable
    /\ nes_last' = "skipped"
    /\ UNCHANGED <<cpu_clock, nes_ppu_clock, oam_dma_cpu_suspend_cycles,
                   tick_pc, dots_left, fb_rented, handles, cut_short>>
    /\ UNCHANGED nesghost
    /\ UNCHANGED <<sysvars, tape>>

\* mutant: ppu_delta taken to be expected_ppu_clock itself
FrameLoopTopNoSub ==
    /\ tick_pc = "loop"
    /\ cpu_clock * 3 >= nes_ppu_clock
    /\ dots_left' = cpu_clock * 3
    /\ tick_pc' = "catchup"
    /\ nes_last' = "loop"
    /\ UNCHANGED <<cpu_clock, nes_ppu_clock, oam_dma_cpu_suspend_cycles,
                   fb_rented, handles, cut_short>>
    /\ UNCHANGED nesghost
    /\ UNCHANGED <<sysvars, tape>>

\* top of 'frame_loop: expected_ppu_clock and ppu_delta
FrameLoopTop ==
    /\ tick_pc = "loop"
    /\ cpu_clock * 3 >= nes_ppu_clock
    /\ dots_left' = cpu_clock * 3 - nes_ppu_clock
    /\ tick_pc' = "catchup"
    /\ nes_last' = "loop"
    /\ UNCHANGED <<cpu_clock, nes_ppu_clock, oam_dma_cpu_suspend_cycles,
                   fb_rented, handles, cut_short>>
    /\ UNCHANGED nesghost
    /\ UNCHANGED <<sysvars, tape>>

\* mutant: RaiseNmi leaves the for loop as well
DotsLeftAfterNmiBreak(status, left) ==
    IF status \in {"FinishedFrame", "RaiseNmi"} THEN 0 ELSE left - 1

\* the iterations left of `for _ in 0..ppu_delta` after a dot reported
\* status: FinishedFrame leaves the frame loop, None and RaiseNmi go on
DotsLeftAfter(status, left) ==
    IF status = "FinishedFrame" THEN 0 ELSE left - 1

\* mutant: the RaiseNmi arm without its cpu.interrupt call
InterruptsNever(status) == 0

\* the cpu.interrupt(NMI) calls the match on the status makes
Interrupts(status) == IF status = "RaiseNmi" THEN 1 ELSE 0

\* mutant: the lease handle outlives the call (leaked, never dropped)
CatchUpDotKeepLease(status) ==
    /\ tick_pc = "catchup"
    /\ dots_left > 0
    /\ status \in PpuStatusAt(nes_ppu_clock)
    /\ nes_ppu_clock' = nes_ppu_clock + 1
    /\ dots_left' = DotsLeftAfter(status, dots_left)
    /\ IF status = "FinishedFrame"
       THEN /\ tick_pc' = "idle"
            /\ cut_short' = (dots_left > 1)
            /\ UNCHANGED <<fb_rented, handles>>
       ELSE /\ tick_pc' = IF dots_left' = 0 THEN "cpu" ELSE "catchup"
            /\ UNCHANGED <<fb_rented, handles, cut_short>>
    /\ nes_last' = status
    /\ UNCHANGED <<cpu_clock, oam_dma_cpu_suspend_cycles>>
    /\ nmi_raised' = nmi_raised + (IF status = "RaiseNmi" THEN 1 ELSE 0)
    /\ nmi_delivered' = nmi_delivered + Interrupts(status)
    /\ fb_pixels' = fb_pixels + 1
    /\ UNCHANGED <<cpu_steps, step_cycles>>
    /\ UNCHANGED <<sysvars, tape>>

\* one iteration of the for loop: one PPU dot and its status
CatchUpDot(status) ==
    /\ tick_pc = "catchup"
    /\ dots_left > 0
    /\ status \in PpuStatusAt(nes_ppu_clock)
    /\ nes_ppu_clock' = nes_ppu_clock + 1
    /\ dots_left' = DotsLeftAfter(status, dots_left)
    /\ IF status = "FinishedFrame"
       THEN /\ tick_pc' = "idle"
            /\ fb_rented' = FALSE
            /\ handles' = handles \ {"emu"}
            /\ cut_short' = (dots_left > 1)
       ELSE /\ tick_pc' = IF dots_left' = 0 THEN "cpu" ELSE "catchup"
            /\ UNCHANGED <<fb_rented, handles, cut_short>>
    /\ nes_last' = status
    /\ UNCHANGED <<cpu_clock, oam_dma_cpu_suspend_cycles>>
    /\ nmi_raised' = nmi_raised + (IF status = "RaiseNmi" THEN 1 ELSE 0)
    /\ nmi_delivered' = nmi_delivered + Interrupts(status)
    /\ fb_pixels' = fb_pixels + 1
    /\ UNCHANGED <<cpu_steps, step_cycles>>
    /\ UNCHANGED <<sysvars, tape>>

\* the for loop over an empty range
CatchUpNone ==
    /\ tick_pc = "catchup"
    /\ dots_left = 0
    /\ tick_pc' = "cpu"
    /\ nes_last' = "caught_up"
    /\ UNCHANGED <<cpu_clock, nes_ppu_clock, oam_dma_cpu_suspend_cycles,
                   dots_left, fb_rented, handles, cut_short>>
    /\ UNCHANGED nesghost
    /\ UNCHANGED <<sysvars, tape>>

\* `self.cpu_clock += self.cpu.step(&mut self.system)`: the instruction
\* takes cycles and may start an OAM DMA that suspends the CPU for oam
CpuStep(cycles, oam) ==
    /\ tick_pc = "cpu"
    /\ oam_dma_cpu_suspend_cycles = 0
    /\ cpu_clock' = cpu_clock + cycles
    /\ oam_dma_cpu_suspend_cycles' = oam
    /\ tick_pc' = "loop"
    /\ nes_last' = "cpu_step"
    /\ UNCHANGED <<nes_ppu_clock, dots_left, fb_rented, handles, cut_short>>
    /\ cpu_steps' = cpu_steps + 1
    /\ step_cycles' = cycles
    /\ UNCHANGED <<nmi_raised, nmi_delivered, fb_pixels>>
    /\ UNCHANGED <<sysvars, tape>>

\* mutant: no else branch, a pending suspension budget is never consumed
OamSuspendNever ==
    /\ tick_pc = "cpu"
    /\ oam_dma_cpu_suspend_cycles # 0
    /\ tick_pc' = "loop"
    /\ nes_last' = "oam_suspend"
    /\ UNCHANGED <<cpu_clock, nes_ppu_clock, dots_left, fb_rented, handles,
                   cut_short, oam_dma_cpu_suspend_cycles>>
    /\ UNCHANGED nesghost
    /\ UNCHANGED <<sysvars, tape>>

\* mutant: the suspension budget consumed but not cleared
OamSuspendKeep ==
    /\ tick_pc = "cpu"
    /\ oam_dma_cpu_suspend_cycles # 0
    /\ cpu_clock' = cpu_clock + oam_dma_cpu_suspend_cycles
    /\ tick_pc' = "loop"
    /\ nes_last' = "oam_suspend"
    /\ UNCHANGED <<nes_ppu_clock, dots_left, fb_rented, handles, cut_short,
                   oam_dma_cpu_suspend_cycles>>
    /\ UNCHANGED nesghost
    /\ UNCHANGED <<sysvars, tape>>

\* the else branch: the suspension budget is consumed and cleared
OamSuspend ==
    /\ tick_pc = "cpu"
    /\ oam_dma_cpu_suspend_cycles # 0
    /\ cpu_clock' = cpu_clock + oam_dma_cpu_suspend_cycles
    /\ oam_dma_cpu_suspend_cycles' = 0
    /\ tick_pc' = "loop"
    /\ nes_last' = "oam_suspend"
    /\ UNCHANGED <<nes_ppu_clock, dots_left, fb_rented, handles, cut_short>>
    /\ UNCHANGED nesghost
    /\ UNCHANGED <<sysvars, tape>>

\* the consumer (the redraw closure of the example, a render thread in
\* other embeddings) asks for the lease
ConsumerRent ==
    /\ "consumer" \notin handles
    /\ IF Rentable
       THEN /\ fb_rented' = TRUE
            /\ handles' = handles \cup {"consumer"}
            /\ nes_last' = "consumer_rented"
       ELSE /\ nes_last' = "consumer_denied"
            /\ UNCHANGED <<fb_rented, handles>>
    /\ UNCHANGED <<cpu_clock, nes_ppu_clock, oam_dma_cpu_suspend_cycles,
                   tick_pc, dots_left, cut_short>>
    /\ UNCHANGED nesghost
    /\ UNCHANGED <<sysvars, tape>>

\* the consumer's handle goes out of scope
ConsumerDrop ==
    /\ "consumer" \in handles
    /\ fb_rented' = FALSE
    /\ handles' = handles \ {"consumer"}
    /\ nes_last' = "consumer_dropped"
    /\ UNCHANGED <<cpu_clock, nes_ppu_clock, oam_dma_cpu_suspend_cycles,
                   tick_pc, dots_left, cut_short>>
    /\ UNCHANGED nesghost
    /\ UNCHANGED <<sysvars, tape>>

InitNes == InitWith({0}, {0}, {TRUE}, {FALSE}) /\ NesNew

NextNes ==
    \/ TickFrameRent
    \/ TickFrameSkip
    \/ FrameLoopTop
    \/ \E status \in {"None", "FinishedFrame", "RaiseNmi"} :
          CatchUpDot(status)
    \/ CatchUpNone
    \/ \E cycles \in 1..MaxInstrCycles, oam \in OamBudgets :
          CpuStep(cycles, oam)
    \/ OamSuspend
    \/ ConsumerRent
    \/ ConsumerDrop

SpecNes == InitNes /\ [][NextNes]_vars

\* one step of a running tick_frame call
FrameStep ==
    \/ FrameLoopTop
    \/ \E status \in {"None", "FinishedFrame", "RaiseNmi"} :
          CatchUpDot(status)
    \/ CatchUpNone
    \/ \E cycles \in 1..MaxInstrCycles, oam \in OamBudgets :
          CpuStep(cycles, oam)
    \/ OamSuspend

\* tick_frame is straight-line code on the emulation thread: it waits for
\* nothing, so a call that is running takes its next step
SpecNesFair == SpecNes /\ WF_vars(FrameStep)

(***************************************************************************)
(* The system bus driven by a CPU                                          *)
(***************************************************************************)
\* the Ppu::step calls of one CPU cycle that may hit a breakpoint: none, or
\* the first, second or third
CycleBreaks == {{}} \cup {{i} : i \in 1..3}

\* what Apu::step may return
DmcRequests == {None} \cup {Some([address |-> a]) : a \in DmcAddrs}

\* the CPU clock the caller of catch_up_ppu_drift keeps: one per completed
\* step_for_cpu_cycle
CpuCycles == bus_accesses + direct_steps

\* the breakpoints a catch-up may hit: none, or one at some call of its loop
CatchUpBreaks == {{}} \cup {{i} : i \in 1..(3 * MaxCycles)}

\* one side-effecting bus access
BusAccess(addrs, data, breaks, dmas) ==
    \/ \E a \in addrs, bp \in breaks, dma \in dmas :
          \/ cpu_read(a, bp, dma)
          \/ dummy_cpu_read(a, bp, dma)
          \/ cpu_fetch(a, bp, dma)
    \/ \E a \in addrs, d \in data, bp \in breaks, dma \in dmas :
          \/ cpu_write(a, d, bp, dma)
          \/ dummy_cpu_write(a, d, bp, dma)

\* The data path: every address and byte, peeks between the accesses, on a
\* PPU without breakpoints and an APU whose DMC channel is silent.
Init == InitWith({165}, Masks, {TRUE}, {FALSE}) /\ NesNew

Next ==
    \/ BusAccess(Addrs, Data, {{}}, {None})
    \/ \E a \in Addrs : peek(a)
    \/ power_cycle

Spec == Init /\ [][Next]_vars

\* The clocks: one address per device, PPU breakpoints at any dot, DMC DMA
\* requests that the CPU takes or leaves pending, in either build.
ClockAddrs == {0, 8192, 16404, 16405, 16406, 65535}

InitClock == InitWith({0}, {0}, BOOLEAN, {FALSE}) /\ NesNew

NextClock ==
    \/ BusAccess(ClockAddrs, {0}, CycleBreaks, DmcRequests)
    \/ \E bp \in CycleBreaks, dma \in DmcRequests :
          StepForCpuCycle(bp, dma)
    \/ TakeDmcDmaRequest
    \/ \E bp \in CatchUpBreaks : catch_up_ppu_drift(3 * CpuCycles, bp)
    \/ power_cycle

SpecClock == InitClock /\ [][NextClock]_vars

\* The debugger: watchpoints on a WRAM cell and on OAMDMA, peeks, and the
\* bus accesses, breakpoints and DMA requests around them.
WatchAddrs == {0, 16404}
WatchMasks == {READ, BitOr(WRITE, DUMMY)}
DebugBreaks == {{}, {2}}

InitDebug == InitWith({165}, {0}, BOOLEAN, {FALSE}) /\ NesNew

NextDebug ==
    \/ BusAccess(WatchAddrs, {255}, DebugBreaks, DmcRequests)
    \/ \E a \in WatchAddrs : peek(a)
    \/ \E a \in WatchAddrs, ops \in WatchMasks : add_watch(a, ops)
    \/ TakeDmcDmaRequest
    \/ power_cycle

SpecDebug == InitDebug /\ [][NextDebug]_vars

\* The watch-hit flag under every operation of the System: a debug build, a
\* DMC request may be left pending (the next step then aborts), a breakpoint
\* may stop the PPU at the first dot of a cycle
WatchBreaks == {{}, {1}}

InitWatch == InitWith({165}, {0}, {TRUE}, {FALSE}) /\ NesNew

NextWatch ==
    \/ BusAccess(WatchAddrs, {255}, {{}}, DmcRequests)
    \/ \E a \in WatchAddrs : peek(a)
    \/ \E a \in WatchAddrs, ops \in WatchMasks : add_watch(a, ops)
    \/ \E bp \in WatchBreaks : StepForCpuCycle(bp, None)
    \/ \E bp \in WatchBreaks : catch_up_ppu_drift(3 * CpuCycles, bp)

SpecWatch == InitWatch /\ [][NextWatch]_vars

\* Address decoding over the whole 16-bit address space
InitDecode == InitWith({0}, {0}, {FALSE}, {FALSE}) /\ NesNew

\* the addresses are taken in order from the first, up to 0xFFFF
NextDecode == \E addr \in NextAddrs \cap 0..65535 : decode(addr)

SpecDecode == InitDecode /\ [][NextDecode]_vars

\* The I/O counters: a build with the io-stats feature, accesses to the
\* first WRAM cell, a PPU register and the last two addresses of the bus
StatAddrs == {0, 8192, 65534, 65535}

InitStats == InitWith({0}, {0}, {FALSE}, {TRUE}) /\ NesNew

NextStats ==
    \/ BusAccess(StatAddrs, {0}, {{}}, {None})
    \/ power_cycle

SpecStats == InitStats /\ [][NextStats]_vars

\* Snapshots: a CPU that writes WRAM and strobes and reads the controller
\* port, a debugger that sets a watchpoint, a caller that clones the System
\* at any moment; builds with and without the I/O counters
SnapAddrs == {0, 16406}

InitSnapshot == InitWith({165}, {0}, {FALSE}, BOOLEAN) /\ NesNew

NextSnapshot ==
    \/ BusAccess(SnapAddrs, {255}, {{}}, DmcRequests)
    \/ \E a \in SnapAddrs : add_watch(a, READ)
    \/ clone

SpecSnapshot == InitSnapshot /\ [][NextSnapshot]_vars

\* Watchpoint matching: every mask a WatchOps value can hold, on either of
\* two addresses, and every kind of bus access to them
AllMasks == 0..(READ + WRITE + EXECUTE + DUMMY)

InitMatch == InitWith({0}, {0}, {FALSE}, {FALSE}) /\ NesNew

NextMatch ==
    \/ BusAccess(WatchAddrs, {0}, {{}}, {None})
    \/ \E a \in WatchAddrs, ops \in AllMasks : add_watch(a, ops)

SpecMatch == InitMatch /\ [][NextMatch]_vars

\* The order inside one bus cycle: a WRAM cell and controller port 1 (whose
\* read shifts it), a PPU breakpoint at any dot, DMC requests the CPU takes
\* or leaves pending, in either build
OrderAddrs == {0, 16406}

InitOrder == InitWith({0}, {0}, BOOLEAN, {FALSE}) /\ NesNew

NextOrder ==
    \/ BusAccess(OrderAddrs, {255}, CycleBreaks, DmcRequests)
    \/ TakeDmcDmaRequest

SpecOrder == InitOrder /\ [][NextOrder]_vars

\* Two Systems with one architectural state and different debug states: a
\* System is cloned as constructed, driven through bus accesses (the DMC
\* request taken after each) while a debugger sets watchpoints, then the
\* clone takes its place and is driven through the same accesses, with
\* watchpoints of its own; builds with and without the I/O counters
TwinAddrs == {0, 16406}

\* the first run is over once the clone has taken the System's place
FirstRun == snapshot # None
SecondRun == snapshot = None /\ tape # <<>>

\* the access the second run makes next is the one the first run made there
Replayed ==
    /\ last'.op = tape[Accesses + 1].op
    /\ last'.addr = tape[Accesses + 1].addr
    /\ last'.data = tape[Accesses + 1].data

InitTwin == InitWith({165}, {0}, {FALSE}, BOOLEAN) /\ NesNew

\* the System is cloned as constructed
CloneAtStart == last.op = "new" /\ clone

\* an access of the first run: the one before it is noted, its DMC request
\* taken
FirstRunAccess ==
    /\ FirstRun
    /\ Len(tape) = Accesses
    /\ dmc_dma_request = None
    /\ BusAccess(TwinAddrs, {255}, {{}}, DmcRequests)

\* the CPU takes the DMC request the access left
TakeAfterAccess ==
    /\ FirstRun => Len(tape) = Accesses
    /\ TakeDmcDmaRequest

\* the clone takes the System's place after the first run
RestoreClone ==
    /\ tape # <<>>
    /\ Len(tape) = Accesses
    /\ dmc_dma_request = None
    /\ Restore

\* an access of the second run: the access the first run made at this
\* place, with the APU returning the DMC request it returned then
SecondRunAccess ==
    /\ SecondRun
    /\ Accesses < Len(tape)
    /\ dmc_dma_request = None
    /\ BusAccess(TwinAddrs, {255}, {{}},
                 {tape[Accesses + 1].arch.dmc_dma_request})
    /\ Replayed

NextTwin ==
    \/ CloneAtStart
    \/ FirstRunAccess
    \/ Record(TwinAddrs)
    \/ TakeAfterAccess
    \/ \E a \in TwinAddrs : add_watch(a, READ)
    \/ RestoreClone
    \/ SecondRunAccess

SpecTwin == InitTwin /\ [][NextTwin]_vars

\* The catch-up distance under either driver of the PPU: the frame loop of
\* Nes, which steps the PPU itself and calls neither step_for_cpu_cycle nor
\* catch_up_ppu_drift, or a CPU that drives the System cycle by cycle and
\* catches up after breakpoints.  A run uses one of the two.
FrameLoopDriver == last.op = "new"
CycleDriver == nes_last = "new"

InitDrift == InitWith({0}, {0}, BOOLEAN, {FALSE}) /\ NesNew

NextDrift ==
    \/ FrameLoopDriver /\ TickFrameRent
    \/ FrameLoopDriver /\ TickFrameSkip
    \/ FrameLoopDriver /\ FrameLoopTop
    \/ \E status \in {"None", "FinishedFrame", "RaiseNmi"} :
          FrameLoopDriver /\ CatchUpDot(status)
    \/ FrameLoopDriver /\ CatchUpNone
    \/ \E cycles \in 1..MaxInstrCycles, oam \in OamBudgets :
          FrameLoopDriver /\ CpuStep(cycles, oam)
    \/ FrameLoopDriver /\ OamSuspend
    \/ FrameLoopDriver /\ ConsumerRent
    \/ FrameLoopDriver /\ ConsumerDrop
    \/ CycleDriver /\ BusAccess({0}, {0}, CycleBreaks, DmcRequests)
    \/ \E bp \in CycleBreaks, dma \in DmcRequests :
          CycleDriver /\ StepForCpuCycle(bp, dma)
    \/ CycleDriver /\ TakeDmcDmaRequest
    \/ \E bp \in CatchUpBreaks :
          CycleDriver /\ catch_up_ppu_drift(3 * CpuCycles, bp)
    \/ CycleDriver /\ power_cycle

SpecDrift == InitDrift /\ [][NextDrift]_vars

\* Reset and power cycle: a CPU that writes WRAM and strobes and reads
\* controller port 1, a debugger that watches the port, DMC requests
\* left pending (a release build), and the reset button or the power switch
\* at any moment
ResetAddrs == {0, 16406}

InitReset == InitWith({165}, {0}, {FALSE}, {FALSE}) /\ NesNew

NextReset ==
    \/ BusAccess(ResetAddrs, {255}, {{}}, DmcRequests)
    \/ add_watch(16406, READ)
    \/ \E reg \in Data, restart \in BOOLEAN : reset(reg, reg, restart)
    \/ power_cycle

SpecReset == InitReset /\ [][NextReset]_vars

(***************************************************************************)
(* Properties of the system bus                                            *)
(***************************************************************************)
SteppingOps == BusOps \cup {"step_for_cpu_cycle"}

\* the byte System::read returns for addr in the current state
ReadResult(addr) ==
    apply_open_bus_bits_mut(ReadSample(addr)[1], ReadSample(addr)[2])

\* value with its undefined bits filled from fill
Mixed(value, undefined_bits, fill) ==
    BitOr(BitAnd(value, BitNot(undefined_bits)), BitAnd(fill, undefined_bits))

\* C1 as stated: after N completed calls of step_for_cpu_cycle the PPU clock
\* is 3 * N at every CPU-cycle boundary.  Refuted by a PPU breakpoint.
C1_ClockRatioAlways == ~panicked => ppu_clock = 3 * CpuCycles

\* C1 amended: the PPU clock is never ahead of 3 * N, and it is 3 * N unless
\* a Ppu::step call hit a breakpoint and no catch_up_ppu_drift(3 * N) has
\* returned true since.
C1_ClockRatio ==
    /\ ppu_clock <= 3 * CpuCycles
    /\ ~drifting => ppu_clock = 3 * CpuCycles

\* C1 witness: two CPU cycles through bus accesses, no breakpoint hit
C1_Witness ==
    /\ CpuCycles >= 2
    /\ bus_accesses >= 1
    /\ ~drifting
    /\ ~panicked
    /\ last.op = "cpu_write"

\* C2 as stated: the latch holds the byte of every write, so a read right
\* after a write of V returns (value & ~M) | (V & M).  Refuted: System::write
\* leaves the latch alone.
C2_OpenBusAfterWrite ==
    [][/\ (last'.op \in WriteOps /\ last'.ok)
            => open_bus_value' = last'.data
       /\ (last.op \in WriteOps /\ last.ok /\ last'.op \in ReadOps /\ last'.ok)
            => last'.driven = Mixed(ReadSample(last'.addr)[1],
                                    ReadSample(last'.addr)[2], last.data)]_vars

\* C3: System::peek changes neither the latch, WRAM, the PPU and APU clocks,
\* the pending DMC DMA request, the watch list nor the watch-hit flag.
C3_PeekPure ==
    [][last'.op = "peek"
          => UNCHANGED <<open_bus_value, wram, ppu_clock, apu_clock,
                         dmc_dma_request, watch_points, watch_hit>>]_vars

\* C3 witness: a peek of a watched address, with a DMA request pending, the
\* clocks advanced and the flag clear
C3_Witness ==
    /\ last.op = "peek"
    /\ \E i \in 1..Len(watch_points) :
          /\ watch_points[i].address = last.addr
          /\ Contains(watch_points[i].ops, READ)
    /\ ~watch_hit
    /\ dmc_dma_request # None
    /\ apu_clock > 0
    /\ last.ret # 0

\* C4 as stated: a step with a request pending fails the check and leaves
\* the request in place.  Refuted by a release build.
C4_PendingStepFails ==
    [][(last'.op \in SteppingOps /\ dmc_dma_request # None)
          => (panicked' /\ dmc_dma_request' = dmc_dma_request)]_vars

\* C4 amended: at most one request is outstanding; in a build with debug
\* assertions a step with a request pending aborts and leaves the request in
\* place; in any build a step with no request pending never fails the check.
C4_DebugBuildRejects ==
    [][/\ Len(dmc_dma_request') <= 1
       /\ (last'.op \in SteppingOps /\ dmc_dma_request # None
              /\ debug_assertions)
            => (panicked' /\ ~last'.ok /\ dmc_dma_request' = dmc_dma_request)
       /\ (last'.op \in SteppingOps /\ dmc_dma_request = None)
            => (~panicked' /\ last'.ok)]_vars

\* C4 witness: a bus access aborted on the pending request
C4_Witness ==
    /\ panicked
    /\ debug_assertions
    /\ dmc_dma_request # None
    /\ last.op \in BusOps
    /\ ~last.ok

\* C7: a loop stops at the first Ppu::step that returns false, every dot
\* advanced is one successful call, and catch_up_ppu_drift(3 * N) that
\* returns true leaves the PPU clock at 3 * N.
C7_Resumable ==
    [][(last'.op \in SteppingOps \cup {"catch_up_ppu_drift"} /\ last'.ok)
          => /\ ppu_clock' = ppu_clock + last'.dots
             /\ last'.calls \in {last'.dots, last'.dots + 1}
             /\ (last'.op \in SteppingOps /\ last'.calls = last'.dots)
                   => last'.dots = 3
             /\ (last'.op = "catch_up_ppu_drift")
                   => /\ last'.expected = 3 * CpuCycles'
                      /\ last'.caught_up => ppu_clock' = 3 * CpuCycles'
                      /\ ~last'.caught_up
                            => /\ last'.calls = last'.dots + 1
                               /\ ppu_clock' < 3 * CpuCycles']_vars

\* C7 witness: a catch-up that returned true after stepping dots a
\* breakpoint had held back
C7_Witness ==
    /\ last.op = "catch_up_ppu_drift"
    /\ last.caught_up
    /\ last.dots > 0
    /\ CpuCycles >= 1
    /\ ppu_clock = 3 * CpuCycles

\* C8 as stated: read(a) = read(a + 0x0800 * k) for every a below 0x2000
\* and k in 1..3.  Refuted where a + 0x0800 * k leaves WRAM.
C8_MirrorAll ==
    \A a \in {b \in Addrs : b <= 8191}, k \in 1..3 :
        ReadResult(a) = ReadResult(a + WRAM_SIZE * k)

\* C8 amended: read(a) = read(a + 0x0800 * k) whenever a + 0x0800 * k is
\* below 0x2000.
C8_Mirror ==
    \A a \in {b \in Addrs : b <= 8191}, k \in 1..3 :
        a + WRAM_SIZE * k <= 8191
            => ReadResult(a) = ReadResult(a + WRAM_SIZE * k)

\* C8 witness: a byte written through one mirror is read through the others
C8_Witness ==
    /\ last.op \in WriteOps
    /\ last.addr = 2048
    /\ last.data # 0
    /\ ReadResult(0) = last.data
    /\ ReadResult(6144) = last.data

\* C9: the APU clock is the number of completed step_for_cpu_cycle calls,
\* one per bus access (and one per direct call), breakpoint or not.
C9_OneStepPerAccess ==
    /\ apu_clock = bus_accesses + direct_steps
    /\ direct_steps = 0 => apu_clock = bus_accesses

\* C9 witness: two bus accesses, the last one cut short by a breakpoint
C9_Witness ==
    /\ bus_accesses >= 2
    /\ direct_steps = 0
    /\ last.op \in BusOps
    /\ last.ok
    /\ last.calls > last.dots

\* C10: a read right after a peek of the same address returns the byte the
\* peek returned: (value & ~M) | (latch & M), latch as before the read.
C10_PeekMatchesRead ==
    [][(last.op = "peek" /\ last'.op \in {"cpu_read", "cpu_fetch"}
           /\ last'.ok /\ last'.addr = last.addr)
          => /\ last'.ret = last.ret
             /\ last'.ret = Mixed(ReadSample(last.addr)[1],
                                   ReadSample(last.addr)[2],
                                   open_bus_value)]_vars

\* C10 witness: OAMDMA read after a peek, with a latch that is not 0
C10_Witness ==
    /\ last.op = "cpu_read"
    /\ last.peeked
    /\ last.ok
    /\ last.addr = 16404
    /\ last.ret # 0

C27_NoUnderflow ==
    /\ [](nes_ppu_clock <= 3 * cpu_clock)
    /\ [][/\ cpu_clock' >= cpu_clock
          /\ nes_ppu_clock' >= nes_ppu_clock
          /\ nes_last' = "loop"
               => /\ dots_left' = 3 * cpu_clock - nes_ppu_clock
                  /\ dots_left' >= 0
          /\ last'.op = "catch_up_ppu_drift"
               => /\ last'.expected = 3 * CpuCycles
                  /\ last'.expected >= ppu_clock
                  /\ last'.ok
                  /\ ppu_clock' = ppu_clock + last'.dots
                  /\ ppu_clock' <= last'.expected]_vars

\* C27 witness: the frame loop has computed a positive catch-up distance
\* for a PPU that has already run
C27_Witness ==
    /\ nes_last = "loop"
    /\ tick_pc = "catchup"
    /\ nes_ppu_clock > 0
    /\ dots_left > 0
    /\ dots_left = 3 * cpu_clock - nes_ppu_clock

(***************************************************************************)
(* Properties of reset                                                     *)
(***************************************************************************)
\* C28: reset calls the reset of the PPU, the APU and the cartridge and of
\* nothing else, and leaves WRAM, the latch, the pending DMC DMA request,
\* both controller ports, the watch list and the watch-hit flag as they
\* were; power_cycle leaves WRAM all zero and the latch 0.
C28_SoftReset ==
    [][/\ last'.op = "reset"
             => /\ last'.devs = <<"ppu.reset", "apu.reset", "cartridge.reset">>
                /\ UNCHANGED <<wram, open_bus_value, dmc_dma_request,
                               watch_points, watch_hit>>
                /\ dev'.port1 = dev.port1
                /\ dev'.port2 = dev.port2
       /\ last'.op = "power_cycle"
             => /\ \A i \in DOMAIN wram' : wram'[i] = 0
                /\ open_bus_value' = 0]_vars

\* C28 witness: reset on a System with both ports strobed, the latch set by
\* a read of port 1, a DMC request pending and a watchpoint hit
C28_Witness ==
    /\ last.op = "reset"
    /\ open_bus_value = 1
    /\ dmc_dma_request # None
    /\ dev.port1 = PortShift(Buttons("port1"))
    /\ dev.port2 = Buttons("port2")
    /\ watch_hit
    /\ watch_points # <<>>

(***************************************************************************)
(* Properties of the frame loop                                            *)
(***************************************************************************)
\* C5: at most one lease handle is live, and only while the framebuffer is
\* checked out: two rent_data attempts never both succeed.
C5_LeaseExclusive ==
    /\ Cardinality(handles) <= 1
    /\ handles # {} <=> fb_rented
    /\ tick_pc # "idle" => handles = {"emu"}

\* C5 witness: the consumer was refused while the frame loop held the lease
C5_Witness ==
    /\ nes_last = "consumer_denied"
    /\ handles = {"emu"}
    /\ tick_pc = "catchup"

\* C6: whenever the CPU steps or the suspension budget is consumed, the PPU
\* has caught up: ppu_clock = 3 * cpu_clock.
C6_CaughtUpBeforeCpu ==
    [][(tick_pc = "cpu" /\ tick_pc' = "loop")
          => nes_ppu_clock = 3 * cpu_clock]_vars

\* C6 witness: the CPU's turn, in a call that resumed a catch-up the end of
\* the frame before had cut short
C6_Witness ==
    /\ tick_pc = "cpu"
    /\ cut_short
    /\ cpu_clock > 0
    /\ nes_ppu_clock = 3 * cpu_clock

\* C11: a tick_frame that finds the lease held elsewhere returns at once:
\* the clocks, the suspension budget, the System, the lease and the pixels
\* are as before, and the frame loop is not entered.
C11_SkipChangesNothing ==
    [][(tick_pc = "idle" /\ ~Rentable /\ nes_last' = "skipped")
          => /\ tick_pc' = "idle"
             /\ UNCHANGED <<cpu_clock, nes_ppu_clock,
                            oam_dma_cpu_suspend_cycles, fb_pixels, cpu_steps,
                            nmi_delivered, fb_rented, handles, sysvars>>]_vars

\* C11 witness: tick_frame skipped while the consumer held the lease, after
\* earlier frames had advanced the clocks
C11_Witness ==
    /\ nes_last = "skipped"
    /\ handles = {"consumer"}
    /\ cpu_clock > 0
    /\ nes_ppu_clock < 3 * cpu_clock

\* C12: every dot that reports RaiseNmi is answered by one cpu.interrupt(NMI)
\* within its own loop iteration (so before the next dot and the next CPU
\* step), None is answered by none, and the catch-up goes on afterwards.
C12_NmiDelivered ==
    /\ [](nmi_delivered = nmi_raised)
    /\ [][/\ nes_last' = "RaiseNmi" /\ nes_ppu_clock' = nes_ppu_clock + 1
             => /\ nmi_delivered' = nmi_delivered + 1
                /\ cpu_steps' = cpu_steps
                /\ dots_left' = dots_left - 1
                /\ tick_pc' = IF dots_left > 1 THEN "catchup" ELSE "cpu"
          /\ nes_last' = "None" /\ nes_ppu_clock' = nes_ppu_clock + 1
             => nmi_delivered' = nmi_delivered]_vars

\* C12 witness: an NMI was delivered in mid catch-up, dots still to step
C12_Witness ==
    /\ nes_last = "RaiseNmi"
    /\ nmi_delivered > 0
    /\ tick_pc = "catchup"
    /\ dots_left > 0

\* C13: at the CPU's turn a pending suspension budget is added to cpu_clock
\* and cleared with no cpu.step; with no budget pending exactly one cpu.step
\* runs and cpu_clock advances by the cycles it returned.
C13_OamSuspension ==
    [][(tick_pc = "cpu" /\ tick_pc' # "cpu")
          => IF oam_dma_cpu_suspend_cycles # 0
             THEN /\ cpu_steps' = cpu_steps
                  /\ cpu_clock' = cpu_clock + oam_dma_cpu_suspend_cycles
                  /\ oam_dma_cpu_suspend_cycles' = 0
             ELSE /\ cpu_steps' = cpu_steps + 1
                  /\ cpu_clock' = cpu_clock + step_cycles']_vars

\* C13 witness: a suspension budget has just been consumed
C13_Witness ==
    /\ nes_last = "oam_suspend"
    /\ oam_dma_cpu_suspend_cycles = 0
    /\ cpu_steps > 0
    /\ cpu_clock >= 3

C22_TickFrameTerminates ==
    /\ (tick_pc # "idle") ~> (tick_pc = "idle" /\ nes_last = "FinishedFrame")
    /\ [][(tick_pc # "idle" /\ tick_pc' = "idle")
             => nes_last' = "FinishedFrame"]_vars

\* C22 witness: a call that stepped the CPU more than once has returned on
\* FinishedFrame and released the lease
C22_Witness ==
    /\ tick_pc = "idle"
    /\ nes_last = "FinishedFrame"
    /\ cpu_steps >= 2
    /\ handles = {}
    /\ nes_ppu_clock = FrameDots

(***************************************************************************)
(* Properties of the debugger state                                        *)
(***************************************************************************)
\* the masks of the watch list's entries for addr
WatchEntries(list, addr) ==
    {list[i].ops : i \in {j \in 1..Len(list) : list[j].address = addr}}

\* the mask each bus operation hands to check_watch_points
OpsOf(op) ==
    CASE op = "cpu_read" -> READ
      [] op = "dummy_cpu_read" -> BitOr(DUMMY, READ)
      [] op = "cpu_fetch" -> EXECUTE
      [] op = "cpu_write" -> WRITE
      [] op = "dummy_cpu_write" -> BitOr(DUMMY, WRITE)

\* the watch list has an entry for addr whose mask contains ops
WatchMatch(addr, ops) ==
    \E m \in WatchEntries(watch_points, addr) : Contains(m, ops)

\* C14: the watch list never holds two entries for one address; add_watch
\* leaves the address with exactly the mask it was given and the entries of
\* the other addresses as they were; nothing else changes the list.
C14_WatchUnique ==
    /\ [](\A i, j \in 1..Len(watch_points) :
             watch_points[i].address = watch_points[j].address => i = j)
    /\ [][IF last'.op = "add_watch"
          THEN /\ WatchEntries(watch_points', last'.addr) = {last'.data}
               /\ \A b \in WatchAddrs \ {last'.addr} :
                     WatchEntries(watch_points', b)
                         = WatchEntries(watch_points, b)
          ELSE watch_points' = watch_points]_vars

\* C14 witness: add_watch replaced the older of two entries by a new mask
C14_Witness ==
    /\ last.op = "add_watch"
    /\ last.replaced
    /\ Len(watch_points) = 2
    /\ watch_points[2] = [address |-> 0, ops |-> BitOr(WRITE, DUMMY)]
    /\ watch_points[1].address = 16404

\* the operations C15 names
StickyOps == BusOps \cup {"peek", "step_for_cpu_cycle", "catch_up_ppu_drift",
                          "add_watch"}

\* C15: no bus access, peek, step, catch-up or add_watch clears a set
\* watch_hit; and an access that matches a watchpoint sets the flag even if
\* the access then aborts in its clock step: the check comes first.
C15_Sticky ==
    [][/\ (watch_hit /\ last'.op \in StickyOps) => watch_hit'
       /\ (last'.op \in BusOps /\ WatchMatch(last'.addr, OpsOf(last'.op)))
              => watch_hit']_vars

\* C15 witness: the flag outlived a later access that matched no watchpoint
C15_Witness ==
    /\ watch_hit
    /\ last.op \in BusOps
    /\ last.ok
    /\ watch_points # <<>>
    /\ ~WatchMatch(last.addr, OpsOf(last.op))

\* C16: the value clone() returns carries an empty watch list, a cleared
\* watch-hit flag and an empty counter table, every other field as the
\* original holds it; the original is as it was.
C16_CloneDropsDebugOnly ==
    [][last'.op = "clone"
          => /\ snapshot' # None
             /\ snapshot'[1].debug.watch_points = <<>>
             /\ snapshot'[1].debug.watch_hit = FALSE
             /\ (io_stats # None
                   => snapshot'[1].debug.io_stats[1].cells = <<>>)
             /\ (io_stats = None => snapshot'[1].debug.io_stats = None)
             /\ snapshot'[1].wram = wram
             /\ snapshot'[1].open_bus_value = open_bus_value
             /\ snapshot'[1].dmc_dma_request = dmc_dma_request
             /\ snapshot'[1].ppu_clock = ppu_clock
             /\ snapshot'[1].apu_clock = apu_clock
             /\ snapshot'[1].dev = dev
             /\ snapshot'[1].undef = undef
             /\ UNCHANGED <<wram, open_bus_value, dmc_dma_request, ppu_clock,
                            apu_clock, dev, undef, watch_points, watch_hit,
                            io_stats>>]_vars

\* C16 witness: a System with WRAM written, a DMC request pending, a
\* watchpoint hit and counters counted has just been cloned
C16_Witness ==
    /\ last.op = "clone"
    /\ snapshot # None
    /\ snapshot[1].wram[0] = 255
    /\ snapshot[1].dmc_dma_request # None
    /\ snapshot[1].apu_clock = 2
    /\ watch_points # <<>>
    /\ watch_hit
    /\ io_stats # None
    /\ io_stats[1].cells[0].writes = 1

\* C23 as stated: power_cycle leaves the watch list, the watch-hit flag and
\* the I/O counters as they were, and leaves WRAM all zero, the latch 0 and
\* no DMC DMA request pending.  Refuted: power_cycle clears the flag (and
\* builds a new counter table).
C23_PowerCycleKeepsDebug ==
    [][last'.op = "power_cycle"
          => /\ watch_points' = watch_points
             /\ watch_hit' = watch_hit
             /\ io_stats' = io_stats
             /\ \A i \in DOMAIN wram' : wram'[i] = 0
             /\ open_bus_value' = 0
             /\ dmc_dma_request' = None]_vars

\* the operation bits the claim gives each kind of access
AccessBits(op) ==
    CASE op = "cpu_read" -> {READ}
      [] op = "cpu_fetch" -> {EXECUTE}
      [] op = "cpu_write" -> {WRITE}
      [] op = "dummy_cpu_read" -> {DUMMY, READ}
      [] op = "dummy_cpu_write" -> {DUMMY, WRITE}

\* the operation bits set in a mask
MaskBits(mask) == {b \in {READ, WRITE, EXECUTE, DUMMY} : (mask \div b) % 2 = 1}

\* the watch list has an entry for addr whose mask has every bit of bits
Watched(list, addr, bits) ==
    \E i \in 1..Len(list) :
        /\ list[i].address = addr
        /\ bits \subseteq MaskBits(list[i].ops)

\* C24: a bus access sets watch_hit exactly when the watch list has an entry
\* for its address whose mask holds every operation bit of the access; a
\* dummy access never hits a watchpoint without DUMMY, a fetch never hits a
\* READ-only watchpoint, an access elsewhere never sets the flag.
C24_WatchMatching ==
    [][last'.op \in BusOps
          => /\ watch_hit' = (watch_hit
                                \/ Watched(watch_points, last'.addr,
                                            AccessBits(last'.op)))
             /\ (~watch_hit /\ watch_hit')
                   => \E i \in 1..Len(watch_points) :
                         /\ watch_points[i].address = last'.addr
                         /\ (last'.op \in {"dummy_cpu_read", "dummy_cpu_write"}
                               => DUMMY \in MaskBits(watch_points[i].ops))
                         /\ (last'.op = "cpu_fetch"
                               => watch_points[i].ops # READ)]_vars

\* C24 witness: a dummy read of a READ-only watchpoint's address left the
\* flag clear, with a watchpoint on the other address that a dummy read
\* would hit
C24_Witness ==
    /\ last.op = "dummy_cpu_read"
    /\ last.ok
    /\ ~watch_hit
    /\ Watched(watch_points, last.addr, {READ})
    /\ \E b \in WatchAddrs \ {last.addr} :
          Watched(watch_points, b, {DUMMY, READ})

\* C26 as stated: the clone, whose debug state is not the System's, gives
\* for every access of the same sequence the byte the System gave, leaves
\* the architectural state the System was left in, and a peek of any address
\* returns there what it returned on the System.  Refuted in a build with
\* the I/O counters: the clone's counter table is empty and its first access
\* aborts.
C26_DebugStateInert ==
    (SecondRun /\ last.op \in BusOps)
       => /\ last.ok = tape[Accesses].ok
          /\ last.ret = tape[Accesses].ret
          /\ Arch = tape[Accesses].arch
          /\ \A a \in TwinAddrs :
                apply_open_bus_bits(PeekSample(a)[1], PeekSample(a)[2])
                    = tape[Accesses].peeks[a]

(***************************************************************************)
(* Properties of the address map                                           *)
(***************************************************************************)
\* the four ranges as the address map gives them
MapRanges ==
    << [lo |-> 0, hi |-> 8191, dev |-> "wram"],
       [lo |-> 8192, hi |-> 16383, dev |-> "ppu"],
       [lo |-> 16384, hi |-> 16415, dev |-> "apu_io"],
       [lo |-> 16416, hi |-> 65535, dev |-> "cartridge"] >>

\* C17: every address lies in exactly one range of the address map, and
\* read, peek and write all address the device of that range.
C17_DecodeTotal ==
    last.op = "decode"
       => /\ Cardinality(Matching(MapRanges, last.addr)) = 1
          /\ \A i \in Matching(MapRanges, last.addr) :
                last.devs = << MapRanges[i].dev, MapRanges[i].dev,
                               MapRanges[i].dev >>

\* C17 witness: the scan has reached the last address, 0xFFFF
C17_Witness ==
    /\ last.op = "decode"
    /\ last.addr = 65535
    /\ last.devs = <<"cartridge", "cartridge", "cartridge">>

(***************************************************************************)
(* Properties of the I/O registers                                         *)
(***************************************************************************)
\* the elements of a sequence
Range(seq) == {seq[i] : i \in 1..Len(seq)}

\* C18: a read or peek of 0x4014 returns the latch and leaves it and every
\* device as they were; a write to 0x4014 calls no device and changes none,
\* and still takes one CPU cycle: one APU step, three PPU dots.
C18_OamDmaWriteOnly ==
    [][/\ (last'.op \in ReadOps /\ last'.addr = 16404 /\ last'.ok)
             => /\ last'.driven = open_bus_value
                /\ open_bus_value' = open_bus_value
                /\ last'.devs = <<>>
                /\ dev' = dev
       /\ (last'.op = "peek" /\ last'.addr = 16404)
             => /\ last'.ret = open_bus_value
                /\ open_bus_value' = open_bus_value
       /\ (last'.op \in WriteOps /\ last'.addr = 16404 /\ last'.ok)
             => /\ last'.devs = <<>>
                /\ dev' = dev
                /\ wram' = wram
                /\ apu_clock' = apu_clock + 1
                /\ ppu_clock' = ppu_clock + 3]_vars

\* C18 witness: a read of 0x4014 returned a latch the cartridge had driven
C18_Witness ==
    /\ last.op = "cpu_read"
    /\ last.addr = 16404
    /\ last.ret = 165
    /\ open_bus_value = 165

\* C19: a write to 0x4016 loads port 1 and reaches the APU; a write to
\* 0x4017 reaches the APU alone and leaves both ports as they were; a read
\* of 0x4016 (0x4017) samples port 1 (port 2) alone and returns its bits in
\* bits 0-4 with the latch in bits 5-7.
C19_SharedRegisters ==
    [][/\ (last'.op \in WriteOps /\ last'.addr = 16406 /\ last'.ok)
             => /\ {"port1.write_register", "apu.write"}
                       \subseteq Range(last'.devs)
                /\ dev'.port1 = PortWriteRegister("port1", last'.data)
                /\ dev'.apu = last'.data
       /\ (last'.op \in WriteOps /\ last'.addr = 16407 /\ last'.ok)
             => /\ last'.devs = <<"apu.write">>
                /\ dev'.apu = last'.data
                /\ dev'.port1 = dev.port1
                /\ dev'.port2 = dev.port2
       /\ (last'.op \in ReadOps /\ last'.addr = 16406 /\ last'.ok)
             => /\ last'.devs = <<"port1.read">>
                /\ dev'.port2 = dev.port2
                /\ dev'.apu = dev.apu
                /\ last'.driven = BitOr(BitAnd(PortBit(dev.port1), 31),
                                        BitAnd(open_bus_value, 224))
       /\ (last'.op \in ReadOps /\ last'.addr = 16407 /\ last'.ok)
             => /\ last'.devs = <<"port2.read">>
                /\ dev'.port1 = dev.port1
                /\ dev'.apu = dev.apu
                /\ last'.driven = BitOr(BitAnd(PortBit(dev.port2), 31),
                                        BitAnd(open_bus_value, 224))]_vars

\* C19 witness: port 1 was strobed through 0x4016 and its first button bit
\* then read there, port 2 loaded by the same strobe and not shifted
C19_Witness ==
    /\ last.op = "cpu_read"
    /\ last.addr = 16406
    /\ last.ret = 1
    /\ dev.port1 = PortShift(Buttons("port1"))
    /\ dev.port2 = Buttons("port2")
    /\ dev.apu = 255

\* C20: with the I/O counters compiled in, every bus access indexes the
\* counter table within its bounds and increments, by one, the counter of
\* its kind for its address.
C20_CountersCoverBus ==
    [][(last'.op \in BusOps /\ io_stats # None)
          => /\ last'.addr < io_stats[1].len
             /\ io_stats'[1].cells[last'.addr][StatField(last'.op)]
                   = io_stats[1].cells[last'.addr][StatField(last'.op)]
                        + 1]_vars

====
